---- MODULE Spec2Model ----
(***************************************************************************)
(* Scan orchestration of wwb_scanner: the sweep scheduler                  *)
(* (ScannerBase.build_sample_sets / calc_next_center_freq), the per-window *)
(* acquisition state machine (SampleSet), the window sequencing and        *)
(* cancellation of SampleCollection and the run/stop lifecycle of          *)
(* ScannerBase / ThreadedScanner.                                          *)
(*                                                                         *)
(* Units.  Hz quantities are integers in Hz.  MHz quantities (the scan     *)
(* range, every frequency axis, the values calc_next_center_freq works on) *)
(* are integers in units of 1/UnitsPerMHz MHz; with scan-range starts that *)
(* are multiples of 500 Hz every value the code computes is exact on that  *)
(* scale.  Power values are not computed: a power array holds, for each    *)
(* bin, the index of the periodogram bin it came from.                     *)
(***************************************************************************)
EXTENDS Integers, Sequences, FiniteSets, TLC

\* ------------------------------------------------------------------ bounds
MaxRuns == 2        \* run_scan calls made by the worker
MaxStops == 2       \* stop_scan calls made by the controller
MaxExtra == 1       \* callbacks the driver still delivers after a cancel
MaxSets == 12       \* sample sets build_sample_sets may create in one call

\* --------------------------------------------------------- program values
sample_rate == 2048000          \* SamplingConfig.DEFAULTS['sample_rate'], Hz
nperseg == 256                  \* welch segment length
OverlapDen == 128               \* sweep_overlap_ratio is held as n/OverlapDen
HzPerMHz == 1000000
UnitsPerMHz == 4000
HzPerUnit == HzPerMHz \div UnitsPerMHz

NoSweep == -1                   \* current_sweep is None

\* main.py: mhz_to_hz / hz_to_mhz (and the "f /= 1e6" of the axis code)
mhz_to_hz(mhz) == mhz * HzPerUnit
hz_to_mhz(hz) == hz \div HzPerUnit

\* -------------------------------------------------------- sequence helpers
Range(s) == {s[i] : i \in 1..Len(s)}
SeqMin(s) == CHOOSE x \in Range(s) : \A y \in Range(s) : x <= y
SeqMax(s) == CHOOSE x \in Range(s) : \A y \in Range(s) : x >= y

\* numpy.argsort: the permutation that sorts f ascending.  (The rank table is
\* bound by a set constructor so that it is evaluated once.)
argsort(f) ==
    LET n == Len(f)
        ranks == [i \in 1..n |->
                    Cardinality({j \in 1..n : f[j] < f[i] \/ (f[j] = f[i] /\ j < i)}) + 1]
    IN CHOOSE f_index \in {[r \in 1..n |-> CHOOSE i \in 1..n : rank[i] = r] :
                              rank \in {ranks}} : TRUE

\* sample_processing.sort_psd (onesided=False, the only way it is called)
sort_psd(f, Pxx) ==
    CHOOSE sorted \in {[f |-> [i \in 1..Len(f) |-> f[f_index[i]]],
                        Pxx |-> [i \in 1..Len(f) |-> Pxx[f_index[i]]]] :
                           f_index \in {argsort(f)}} : TRUE

\* scipy.signal.welch on complex input: the two-sided frequency axis
\* numpy.fft.fftfreq(n, 1/fs) and one power value per bin
welch(fs, n) ==
    [f |-> [i \in 1..n |-> IF i <= (n + 1) \div 2 THEN ((i - 1) * fs) \div n
                                                 ELSE ((i - 1 - n) * fs) \div n],
     Pxx |-> [i \in 1..n |-> i]]

\* the sorted periodogram of one window; it depends on the sample rate and
\* the segment length only
sorted_psd ==
    CHOOSE s \in {sort_psd(w.f, w.Pxx) : w \in {welch(sample_rate, nperseg)}} : TRUE

\* crop = int((f.size * overlap_ratio) / 2)
crop_size(size, ratio) == (size * ratio) \div (2 * OverlapDen)

\* the Python slice a[crop:crop*-1]; a[0:-0] is a[0:0], the empty array
slice_crop(a, crop) ==
    IF crop = 0 \/ crop >= Len(a) - crop THEN << >>
    ELSE SubSeq(a, crop + 1, Len(a) - crop)

\* SampleSet.calc_expected_freqs: the axis (MHz) of a window centred on
\* center_frequency (Hz) under overlap ratio ratio/OverlapDen
calc_expected_freqs(center_frequency, ratio) ==
    LET s == sorted_psd
        crop == crop_size(Len(s.f), ratio)
        f_expected == slice_crop(s.f, crop)
    IN [i \in 1..Len(f_expected) |-> hz_to_mhz(f_expected[i] + center_frequency)]

step_divisor == UnitsPerMHz \div 16

\* calc_next_center_freq without its last statement, "fc -= step_divisor"
calc_next_center_freq_no_backstep(f) ==
    LET fmin == SeqMin(f)
        fmax0 == SeqMax(f)
        fmax == fmax0 - (fmax0 % step_divisor)
        fsize == fmax - fmin
        fc0 == fmax + (fsize \div 2)
    IN fc0 - (fc0 % step_divisor)

\* calc_next_center_freq with "fc = fmin + fsize / 2." for "fc = fmax + ..."
calc_next_center_freq_from_fmin(f) ==
    LET fmin == SeqMin(f)
        fmax0 == SeqMax(f)
        fmax == fmax0 - (fmax0 % step_divisor)
        fsize == fmax - fmin
        fc0 == fmin + (fsize \div 2)
        fc1 == fc0 - (fc0 % step_divisor)
    IN fc1 - step_divisor

\* ScannerBase.calc_next_center_freq on a non-empty axis f (MHz)
calc_next_center_freq(f) ==
    LET fmin == SeqMin(f)
        fmax0 == SeqMax(f)
        fmax == fmax0 - (fmax0 % step_divisor)
        fsize == fmax - fmin
        fc0 == fmax + (fsize \div 2)
        fc1 == fc0 - (fc0 % step_divisor)
    IN fc1 - step_divisor


\* ------------------------------------------------------------------- state
VARIABLES
    config,         \* ScanConfig: scan_range (MHz), sweep_overlap_ratio, sweeps_per_scan
    run_once,       \* ThreadedScanner.run_once
    sample_sets,    \* SampleCollection.sample_sets: center frequency (Hz) -> SampleSet
    sdr,            \* the driver: tuned frequency, active async reads, cancel state
    scanning,       \* SampleCollection.scanning
    stopped,        \* SampleCollection.stopped
    _running,       \* ScannerBase._running
    _stopped,       \* ScannerBase._stopped
    t_scanning,     \* ThreadedScanner.scanning
    stopping,       \* ThreadedScanner.stopping
    waiting,        \* ThreadedScanner.waiting
    t_stopped,      \* ThreadedScanner.stopped
    pc,             \* position of the scanning thread
    freq,           \* build_sample_sets: the loop variable freq (MHz)
    built,          \* build_sample_sets: iterations done in this call
    keys,           \* scan_all_freqs: the sorted keys not yet visited
    cpc,            \* position of the controlling thread
    ncalls,         \* stop_scan / stop calls made so far
    run_no,         \* run_scan calls started so far
    delivered,      \* per window: on_sample_set_processed calls in the current run
    saved,          \* save_to_dbstore calls in the current run
    hist            \* history of the current run, for stating the properties

evVars == <<scanning, stopped, _running, _stopped, t_scanning, stopping, waiting, t_stopped>>
workerVars == <<pc, freq, built, keys>>
ctlVars == <<cpc, ncalls>>
vars == <<config, run_once, sample_sets, sdr, evVars, workerVars, ctlVars,
          run_no, delivered, saved, hist>>

\* SampleSet.__init__: every slot is None but the center frequency
NewSampleSet(center_frequency) ==
    [center_frequency |-> center_frequency,
     raw |-> [none |-> TRUE, rows |-> << >>],
     current_sweep |-> NoSweep,
     frequencies |-> [none |-> TRUE, v |-> << >>],
     powers |-> [shape |-> "none", rows |-> 0, v |-> << >>]]

\* the frequencies property: the cached axis, or the expected axis computed
\* on first access
frequencies(ss) ==
    IF ss.frequencies.none
    THEN calc_expected_freqs(ss.center_frequency, config.sweep_overlap_ratio)
    ELSE ss.frequencies.v

\* len() of the powers attribute
powers_len(ss) == IF ss.powers.shape = "2d" THEN ss.powers.rows ELSE Len(ss.powers.v)

MHzValue(n, d) == (n * UnitsPerMHz) \div d      \* n/d MHz

\* the overlap ratios a session is configured with: the multiples of 1/8
\* from 0 to 1, and 119/128 and 120/128
OverlapRatios == {(n * OverlapDen) \div 8 : n \in 0..8} \cup {119, 120}

\* the current_freq setter: the progress fraction it assigns, as numerator
\* and denominator; the division raises on a scan range of zero length
current_freq_progress(value) ==
    LET f_min == config.scan_range[1]
        f_max == config.scan_range[2]
    IN [raises |-> f_max = f_min, num |-> value - f_min, den |-> f_max - f_min]

\* the session of the lifecycle specification: two windows, two sweeps each
ScanConfigs ==
    {[scan_range |-> <<MHzValue(400, 1), MHzValue(401, 1)>>,
      sweep_overlap_ratio |-> OverlapDen \div 2, sweeps_per_scan |-> 2]}

\* no callback has raised
NoFail ==
    [happened |-> FALSE,
     key |-> 0,                 \* the window whose callback raised
     canceled |-> FALSE,        \* a cancel was in progress when the exception left
     same_exception |-> FALSE,  \* the exception that left is the one caught
     sweep_before |-> NoSweep,  \* current_sweep when the callback was entered
     sweep_after |-> NoSweep,   \* current_sweep when the exception left
     delivered_before |-> 0,    \* deliveries of that window before the callback
     done_before |-> {}]        \* the windows delivered before the callback

NoHist ==
    [stop_req |-> FALSE,        \* a stop_scan call began during this run, before its scan ended
     req_done |-> FALSE,        \* ... and has finished the flag handling of cancel()
     started_after |-> FALSE,   \* read_samples was called after req_done
     snap |-> [valid |-> FALSE, done |-> {}, inflight |-> {}],
     cancel_run |-> 0,          \* the run whose scan cancel() found in progress
     call_run |-> 0,            \* the run during which the current stop_scan call began
     call_in_scan |-> FALSE,    \* ... while scan_all_freqs was running
     fail |-> NoFail,           \* the first callback of this run that raised
     build_ratio |-> 0,         \* the overlap ratio when build_sample_sets was entered
     scheduled |-> << >>,       \* the keys build_sample_sets created, in order
     read_order |-> << >>,      \* the keys read_samples was called on, in order
     stop_returned |-> FALSE,   \* a ThreadedScanner.stop call has returned
     center_bins |-> << >>]     \* per delivered window: the frequencies passed to
                                \* add_sample with is_center_frequency true

InitCommon ==
    /\ sample_sets = << >>
    /\ sdr = [center_freq |-> 0, active |-> {}, canceling |-> FALSE, extra |-> 0]
    /\ scanning = FALSE /\ stopped = FALSE
    /\ _running = FALSE /\ _stopped = FALSE
    /\ t_scanning = FALSE /\ stopping = FALSE /\ waiting = FALSE /\ t_stopped = FALSE
    /\ pc = "run_top" /\ freq = 0 /\ built = 0 /\ keys = << >>
    /\ cpc = "idle" /\ ncalls = 0
    /\ run_no = 0 /\ delivered = << >> /\ saved = 0
    /\ hist = NoHist

Init ==
    /\ config \in ScanConfigs
    /\ run_once \in BOOLEAN
    /\ InitCommon


\* positions inside run_scan up to the return of scan_all_freqs
RunPcs == {"build", "set_running", "scan_set", "loop", "reading", "scan_clear", "scan_stopped"}
\* positions inside scan_all_freqs between scanning.set() and scanning.clear()
ScanPcs == {"loop", "reading", "scan_clear"}

\* ---------------------------------------------- ThreadedScanner.run, head
\* "if stopping.is_set(): break" not taken; scanning.set(); run_scan() is
\* entered and build_sample_sets reads the scan range
RunScan ==
    /\ pc = "run_top" /\ ~stopping /\ run_no < MaxRuns
    /\ t_scanning' = TRUE
    /\ pc' = "build" /\ freq' = config.scan_range[1] /\ built' = 0
    /\ run_no' = run_no + 1
    /\ delivered' = [k \in DOMAIN sample_sets |-> 0]
    /\ saved' = 0
    /\ hist' = [hist EXCEPT !.stop_req = FALSE, !.req_done = FALSE,
                            !.started_after = FALSE, !.snap = NoHist.snap,
                            !.fail = NoFail,
                            !.build_ratio = config.sweep_overlap_ratio,
                            !.scheduled = << >>, !.read_order = << >>,
                            !.center_bins = << >>]
    /\ UNCHANGED <<config, run_once, sample_sets, sdr, scanning, stopped, _running,
                   _stopped, stopping, waiting, t_stopped, keys, ctlVars>>

\* "if stopping.is_set(): break"
RunBreak ==
    /\ pc = "run_top" /\ stopping
    /\ pc' = "t_exit"
    /\ UNCHANGED <<config, run_once, sample_sets, sdr, evVars, freq, built, keys,
                   ctlVars, run_no, delivered, saved, hist>>

\* ------------------------------------------ ScannerBase.build_sample_sets
\* one iteration of "while freq <= end_freq": build_sample_set replaces the
\* entry of the key, calc_next_center_freq reads (and caches) its axis
BuildSampleSet ==
    /\ pc = "build" /\ freq <= config.scan_range[2] /\ built < MaxSets
    /\ \E key \in {mhz_to_hz(freq)} :
       \E f \in {calc_expected_freqs(key, config.sweep_overlap_ratio)} :
       LET sample_set == [NewSampleSet(key) EXCEPT !.frequencies = [none |-> FALSE, v |-> f]]
       IN /\ Len(f) > 0
          /\ sample_sets' = [k \in DOMAIN sample_sets \cup {key} |->
                                IF k = key THEN sample_set ELSE sample_sets[k]]
          /\ delivered' = [k \in DOMAIN sample_sets \cup {key} |->
                                IF k \in DOMAIN delivered /\ k # key THEN delivered[k] ELSE 0]
          /\ freq' = calc_next_center_freq(f)
          /\ hist' = [hist EXCEPT !.scheduled = Append(@, key)]
    /\ built' = built + 1
    /\ UNCHANGED <<config, run_once, sdr, evVars, pc, keys, ctlVars, run_no, saved>>

\* the axis is empty (crop 0 or crop >= half the bins): f.min() raises
BuildRaise ==
    /\ pc = "build" /\ freq <= config.scan_range[2] /\ built < MaxSets
    /\ \E key \in {mhz_to_hz(freq)} :
       \E f \in {calc_expected_freqs(key, config.sweep_overlap_ratio)} :
       LET sample_set == [NewSampleSet(key) EXCEPT !.frequencies = [none |-> FALSE, v |-> f]]
       IN /\ Len(f) = 0
          /\ sample_sets' = [k \in DOMAIN sample_sets \cup {key} |->
                                IF k = key THEN sample_set ELSE sample_sets[k]]
          /\ delivered' = [k \in DOMAIN sample_sets \cup {key} |->
                                IF k \in DOMAIN delivered /\ k # key THEN delivered[k] ELSE 0]
          /\ hist' = [hist EXCEPT !.scheduled = Append(@, key)]
    /\ pc' = "build_raised"
    /\ UNCHANGED <<config, run_once, sdr, evVars, freq, built, keys, ctlVars, run_no,
                   saved>>

BuildEnd ==
    /\ pc = "build" /\ freq > config.scan_range[2]
    /\ pc' = "set_running"
    /\ UNCHANGED <<config, run_once, sample_sets, sdr, evVars, freq, built, keys,
                   ctlVars, run_no, delivered, saved, hist>>

\* ------------------------------------------------- ScannerBase.run_scan
\* running.set()
SetRunning ==
    /\ pc = "set_running"
    /\ _running' = TRUE
    /\ pc' = "scan_set"
    /\ UNCHANGED <<config, run_once, sample_sets, sdr, scanning, stopped, _stopped,
                   t_scanning, stopping, waiting, t_stopped, freq, built, keys, ctlVars,
                   run_no, delivered, saved, hist>>

\* the keys in the order build_sample_sets inserted them
InsertionOrderSeq(S) == hist.scheduled

\* a sequence holding the elements of the set S in ascending order
RECURSIVE SortedSeq(_)
SortedSeq(S) ==
    IF S = {} THEN << >>
    ELSE LET m == CHOOSE x \in S : \A y \in S : x <= y
         IN <<m>> \o SortedSeq(S \ {m})

\* ------------------------------------- SampleCollection.scan_all_freqs
\* scanning.set(); the for statement evaluates sorted(sample_sets.keys())
ScanSet ==
    /\ pc = "scan_set"
    /\ scanning' = TRUE
    /\ keys' = SortedSeq(DOMAIN sample_sets)
    /\ pc' = "loop"
    /\ UNCHANGED <<config, run_once, sample_sets, sdr, stopped, _running, _stopped,
                   t_scanning, stopping, waiting, t_stopped, freq, built, ctlVars,
                   run_no, delivered, saved, hist>>

\* a read_samples_async that returns at once, the read still running
AfterReadStart_nonblocking == "loop"

\* read_samples_async blocks its caller until the read has been cancelled
AfterReadStart == "reading"

\* a loop that never looks at the flag
loop_continues_unchecked == TRUE

\* scan_all_freqs: "if not self.scanning.is_set(): break"
loop_continues == scanning

\* the flag is set and a key is left: SampleSet.read_samples tunes the
\* driver, allocates raw and powers and starts the asynchronous read
NextWindow ==
    /\ pc = "loop" /\ loop_continues /\ keys # << >>
    /\ LET key == Head(keys)
           sweeps_per_scan == config.sweeps_per_scan
       IN /\ sample_sets' = [sample_sets EXCEPT
                  ![key].raw = [none |-> FALSE, rows |-> [i \in 1..sweeps_per_scan |-> 0]],
                  ![key].powers = [shape |-> "2d", rows |-> sweeps_per_scan, v |-> << >>]]
          /\ sdr' = [center_freq |-> key, active |-> sdr.active \cup {key},
                     canceling |-> FALSE, extra |-> 0]
    /\ keys' = Tail(keys)
    /\ pc' = AfterReadStart
    /\ hist' = [hist EXCEPT !.started_after = @ \/ hist.req_done,
                            !.read_order = Append(@, Head(keys))]
    /\ UNCHANGED <<config, run_once, evVars, freq, built, ctlVars, run_no, delivered, saved>>

\* "if not self.scanning.is_set(): break", or the keys are exhausted
LoopExit ==
    /\ pc = "loop" /\ (~loop_continues \/ keys = << >>)
    /\ pc' = "scan_clear"
    /\ UNCHANGED <<config, run_once, sample_sets, sdr, evVars, freq, built, keys,
                   ctlVars, run_no, delivered, saved, hist>>


\* ------------------------------------------------------------- SampleSet
\* process_samples without "self.frequencies = f": the cached axis is kept
\* whatever was computed
process_samples_keep_axis(ss) ==
    LET s == sorted_psd
        crop == crop_size(Len(s.f), config.sweep_overlap_ratio)
        powers == slice_crop(s.Pxx, crop)
    IN [ss EXCEPT !.powers = [shape |-> "1d", rows |-> 0, v |-> powers],
                  !.frequencies = [none |-> FALSE, v |-> frequencies(ss)]]

\* process_samples cropping one bin more than calc_expected_freqs
process_samples_wider_crop(ss) ==
    LET fc == ss.center_frequency
        s == sorted_psd
        crop == crop_size(Len(s.f), config.sweep_overlap_ratio) + 1
        f0 == slice_crop(s.f, crop)
        powers == slice_crop(s.Pxx, crop)
        f == [i \in 1..Len(f0) |-> hz_to_mhz(f0[i] + fc)]
        cached == frequencies(ss)
    IN [ss EXCEPT !.powers = [shape |-> "1d", rows |-> 0, v |-> powers],
                  !.frequencies = [none |-> FALSE,
                                   v |-> IF f = cached THEN cached ELSE f]]

\* SampleSet.process_samples up to the call of on_sample_set_processed: the
\* axis and the powers of the full buffer are sorted and cropped, powers is
\* stored, and the axis replaces the cached one when the two differ
process_samples(ss) ==
    LET fc == ss.center_frequency
        s == sorted_psd
        crop == crop_size(Len(s.f), config.sweep_overlap_ratio)
        f0 == slice_crop(s.f, crop)
        powers == slice_crop(s.Pxx, crop)
        f == [i \in 1..Len(f0) |-> hz_to_mhz(f0[i] + fc)]
        cached == frequencies(ss)
    IN [ss EXCEPT !.powers = [shape |-> "1d", rows |-> 0, v |-> powers],
                  !.frequencies = [none |-> FALSE,
                                   v |-> IF f = cached THEN cached ELSE f]]

\* samples_callback, after the sweep was stored: "if current_sweep >
\* self.raw.shape[0]" on the local current_sweep, the index just written
sweep_complete(current_sweep, shape0) == current_sweep > shape0

\* Scanner.on_sample_set_processed raises on an empty axis (min() of an
\* empty sequence) before any add_sample call
on_sample_set_processed_raises(ss) == Len(ss.frequencies.v) = 0

\* Scanner.on_sample_set_processed: "is_center = f == center_freq", f being
\* a bin frequency of the axis (MHz) and center_freq the center_frequency of
\* the sample set (Hz), compared as numbers
is_center_frequency(f, center_freq) ==
    f % UnitsPerMHz = 0 /\ f \div UnitsPerMHz = center_freq

\* Scanner.on_sample_set_processed: the add_sample calls made for a
\* processed sample set, one per pair of zip(freqs, powers)
on_sample_set_processed(ss) ==
    LET freqs == ss.frequencies.v
        powers == ss.powers.v
        n == IF Len(freqs) <= Len(powers) THEN Len(freqs) ELSE Len(powers)
    IN [i \in 1..n |->
          [frequency |-> freqs[i], magnitude |-> powers[i],
           is_center_frequency |-> is_center_frequency(freqs[i], ss.center_frequency)]]

\* the history after the sample set ss of key k was delivered
AfterDelivery(h, k, ss) ==
    LET flagged == {c.frequency : c \in {x \in Range(on_sample_set_processed(ss)) :
                                               x.is_center_frequency}}
    IN [h EXCEPT !.center_bins =
           [j \in DOMAIN h.center_bins \cup {k} |->
               IF j = k THEN flagged ELSE h.center_bins[j]]]

\* where an exception that left samples_callback ends up: the driver's
\* callback bridge drops it and the read goes on until the cancel takes
\* effect, or it unwinds read_samples_async and every caller up to the thread
ExceptionOutcomes(at) == {at, "raised"}

\* the driver delivers one block to samples_callback of an acquiring sample
\* set; on_sample_read_complete, process_samples and
\* on_sample_set_processed run inside the callback
SamplesCallback ==
    /\ \E k \in sdr.active :
        /\ sdr.canceling => sdr.extra < MaxExtra
        /\ LET ss == sample_sets[k]
               current_sweep == IF ss.current_sweep = NoSweep THEN 0 ELSE ss.current_sweep
               shape0 == Len(ss.raw.rows)
               full == current_sweep >= shape0
               stored == [ss EXCEPT !.raw.rows[current_sweep + 1] = 1,
                                    !.current_sweep = current_sweep + 1]
               before == IF full THEN [ss EXCEPT !.current_sweep = current_sweep]
                                 ELSE stored
               complete == IF full THEN TRUE ELSE sweep_complete(current_sweep, shape0)
           IN \E after \in {IF complete THEN process_samples(before) ELSE before} :
              LET raises == complete /\ on_sample_set_processed_raises(after) IN
              /\ sample_sets' = [sample_sets EXCEPT ![k] = after]
              /\ sdr' = [sdr EXCEPT !.canceling = @ \/ complete,
                                    !.extra = IF sdr.canceling THEN @ + 1 ELSE @]
              /\ delivered' = IF complete /\ ~raises
                              THEN [delivered EXCEPT ![k] = @ + 1] ELSE delivered
              /\ hist' = IF complete /\ ~raises THEN AfterDelivery(hist, k, after) ELSE hist
              /\ pc' \in IF raises THEN ExceptionOutcomes(pc) ELSE {pc}
    /\ UNCHANGED <<config, run_once, evVars, freq, built, keys, ctlVars, run_no, saved>>

\* samples_callback, the except path: storing the block ("wrote" false) or
\* the preview process_sweep ("wrote" true) raises; on_sample_read_complete
\* cancels the read unless a cancel is in progress and runs process_samples
\* and on_sample_set_processed on the buffer as it is; then "raise"
SamplesCallbackRaises ==
    /\ \E k \in sdr.active, wrote \in BOOLEAN :
        /\ sdr.canceling => sdr.extra < MaxExtra
        /\ LET ss == sample_sets[k]
               current_sweep == IF ss.current_sweep = NoSweep THEN 0 ELSE ss.current_sweep
               shape0 == Len(ss.raw.rows)
               before == [ss EXCEPT !.current_sweep = current_sweep,
                                    !.raw.rows = IF wrote
                                                 THEN [@ EXCEPT ![current_sweep + 1] = 1]
                                                 ELSE @]
           IN \E after \in {process_samples(before)} :
              LET raises == on_sample_set_processed_raises(after) IN
              /\ current_sweep < shape0
              /\ sample_sets' = [sample_sets EXCEPT ![k] = after]
              /\ sdr' = [sdr EXCEPT !.canceling = TRUE,
                                    !.extra = IF sdr.canceling THEN @ + 1 ELSE @]
              /\ delivered' = IF raises THEN delivered
                              ELSE [delivered EXCEPT ![k] = @ + 1]
              /\ LET h == IF raises THEN hist ELSE AfterDelivery(hist, k, after)
                 IN hist' = IF hist.fail.happened THEN h
                            ELSE [h EXCEPT !.fail =
                                 [happened |-> TRUE,
                                  key |-> k,
                                  canceled |-> TRUE,
                                  same_exception |-> ~raises,
                                  sweep_before |-> ss.current_sweep,
                                  sweep_after |-> after.current_sweep,
                                  delivered_before |-> delivered[k],
                                  done_before |-> {j \in DOMAIN delivered : delivered[j] > 0}]]
    /\ pc' \in ExceptionOutcomes(pc)
    /\ UNCHANGED <<config, run_once, evVars, freq, built, keys, ctlVars, run_no, saved>>

\* the cancelled read ends and read_samples_async returns to read_samples,
\* which returns to the loop of scan_all_freqs
ReadReturn ==
    /\ pc = "reading" /\ sdr.canceling
    /\ sdr' = [sdr EXCEPT !.active = {}, !.canceling = FALSE, !.extra = 0]
    /\ pc' = "loop"
    /\ UNCHANGED <<config, run_once, sample_sets, evVars, freq, built, keys, ctlVars,
                   run_no, delivered, saved, hist>>

\* scan_all_freqs: scanning.clear()
ScanClear ==
    /\ pc = "scan_clear"
    /\ scanning' = FALSE
    /\ pc' = "scan_stopped"
    /\ UNCHANGED <<config, run_once, sample_sets, sdr, stopped, _running, _stopped,
                   t_scanning, stopping, waiting, t_stopped, freq, built, keys, ctlVars,
                   run_no, delivered, saved, hist>>

\* scan_all_freqs: stopped.set()
ScanStopped ==
    /\ pc = "scan_stopped"
    /\ stopped' = TRUE
    /\ pc' = "wait_stopped"
    /\ UNCHANGED <<config, run_once, sample_sets, sdr, scanning, _running, _stopped,
                   t_scanning, stopping, waiting, t_stopped, freq, built, keys, ctlVars,
                   run_no, delivered, saved, hist>>

\* run_scan: sample_collection.stopped.wait()
WaitStopped ==
    /\ pc = "wait_stopped" /\ stopped
    /\ pc' = "check_running"
    /\ UNCHANGED <<config, run_once, sample_sets, sdr, evVars, freq, built, keys,
                   ctlVars, run_no, delivered, saved, hist>>

\* run_scan: "if running.is_set(): self.save_to_dbstore()"
CheckRunning ==
    /\ pc = "check_running"
    /\ saved' = IF _running THEN saved + 1 ELSE saved
    /\ pc' = "run_clear"
    /\ UNCHANGED <<config, run_once, sample_sets, sdr, evVars, freq, built, keys,
                   ctlVars, run_no, delivered, hist>>

\* run_scan: running.clear()
RunClear ==
    /\ pc = "run_clear"
    /\ _running' = FALSE
    /\ pc' = "set_stopped"
    /\ UNCHANGED <<config, run_once, sample_sets, sdr, scanning, stopped, _stopped,
                   t_scanning, stopping, waiting, t_stopped, freq, built, keys, ctlVars,
                   run_no, delivered, saved, hist>>

\* run_scan: self._stopped.set(), and the return to ThreadedScanner.run
SetStopped ==
    /\ pc = "set_stopped"
    /\ _stopped' = TRUE
    /\ pc' = "t_clear"
    /\ UNCHANGED <<config, run_once, sample_sets, sdr, scanning, stopped, _running,
                   t_scanning, stopping, waiting, t_stopped, freq, built, keys, ctlVars,
                   run_no, delivered, saved, hist>>

\* ------------------------------------------- ThreadedScanner.run, tail
\* scanning.clear(); "if run_once: break"
ThreadScanClear ==
    /\ pc = "t_clear"
    /\ t_scanning' = FALSE
    /\ pc' = IF run_once THEN "t_exit" ELSE "t_wait"
    /\ UNCHANGED <<config, run_once, sample_sets, sdr, scanning, stopped, _running,
                   _stopped, stopping, waiting, t_stopped, freq, built, keys, ctlVars,
                   run_no, delivered, saved, hist>>

\* waiting.wait(scan_wait_timeout) returns, the event set or the time out
WaitReturn ==
    /\ pc = "t_wait"
    /\ pc' = "run_top"
    /\ UNCHANGED <<config, run_once, sample_sets, sdr, evVars, freq, built, keys,
                   ctlVars, run_no, delivered, saved, hist>>

\* stopped.set() after the loop
ThreadStopped ==
    /\ pc = "t_exit"
    /\ t_stopped' = TRUE
    /\ pc' = "done"
    /\ UNCHANGED <<config, run_once, sample_sets, sdr, scanning, stopped, _running,
                   _stopped, t_scanning, stopping, waiting, freq, built, keys, ctlVars,
                   run_no, delivered, saved, hist>>


\* ------------------------------------------------ ScannerBase.stop_scan
\* the controlling thread calls stop_scan: self._running.clear()
StopScanCall ==
    /\ cpc = "idle" /\ ncalls < MaxStops
    /\ _running' = FALSE
    /\ cpc' = "cancel_check"
    /\ ncalls' = ncalls + 1
    /\ hist' = [hist EXCEPT !.stop_req = @ \/ pc \in RunPcs,
                            !.call_run = IF pc \in RunPcs THEN run_no ELSE 0,
                            !.call_in_scan = pc \in ScanPcs,
                            !.cancel_run = 0]
    /\ UNCHANGED <<config, run_once, sample_sets, sdr, scanning, stopped, _stopped,
                   t_scanning, stopping, waiting, t_stopped, workerVars, run_no,
                   delivered, saved>>

\* the stop_scan call in progress began during the run that is still scanning
SameRun == hist.call_run > 0 /\ hist.call_run = run_no /\ pc \in RunPcs

\* SampleCollection.cancel: "if self.scanning.is_set():"
CancelCheck ==
    /\ cpc = "cancel_check"
    /\ cpc' = IF scanning THEN "cancel_clear" ELSE "stop_wait"
    /\ hist' = IF scanning THEN [hist EXCEPT !.cancel_run = run_no]
               ELSE [hist EXCEPT !.req_done = @ \/ SameRun]
    /\ UNCHANGED <<config, run_once, sample_sets, sdr, evVars, workerVars, ncalls,
                   run_no, delivered, saved>>

\* SampleCollection.cancel: self.scanning.clear()
CancelClear ==
    /\ cpc = "cancel_clear"
    /\ scanning' = FALSE
    /\ cpc' = "cancel_wait"
    /\ hist' = [hist EXCEPT
           !.req_done = @ \/ SameRun,
           !.snap = IF SameRun /\ hist.call_in_scan /\ pc \in ScanPcs /\ ~hist.snap.valid
                    THEN [valid |-> TRUE,
                          done |-> {k \in DOMAIN delivered : delivered[k] > 0},
                          inflight |-> {k \in sdr.active : delivered[k] = 0}]
                    ELSE @]
    /\ UNCHANGED <<config, run_once, sample_sets, sdr, stopped, _running, _stopped,
                   t_scanning, stopping, waiting, t_stopped, workerVars, ncalls, run_no,
                   delivered, saved>>

\* SampleCollection.cancel: self.stopped.wait()
CancelWait ==
    /\ cpc = "cancel_wait" /\ stopped
    /\ cpc' = "stop_wait"
    /\ UNCHANGED <<config, run_once, sample_sets, sdr, evVars, workerVars, ncalls,
                   run_no, delivered, saved, hist>>

\* stop_scan: self._stopped.wait()
StopWait ==
    /\ cpc = "stop_wait" /\ _stopped
    /\ cpc' = "idle"
    /\ UNCHANGED <<config, run_once, sample_sets, sdr, evVars, workerVars, ncalls,
                   run_no, delivered, saved, hist>>

\* ------------------------------------------------ ThreadedScanner.stop
\* the controlling thread calls stop: self.stopping.set()
StopCall ==
    /\ cpc = "idle" /\ ncalls < MaxStops
    /\ stopping' = TRUE
    /\ cpc' = "ts_waiting"
    /\ ncalls' = ncalls + 1
    /\ UNCHANGED <<config, run_once, sample_sets, sdr, scanning, stopped, _running,
                   _stopped, t_scanning, waiting, t_stopped, workerVars, run_no,
                   delivered, saved, hist>>

\* stop: self.waiting.set()
StopSetWaiting ==
    /\ cpc = "ts_waiting"
    /\ waiting' = TRUE
    /\ cpc' = "ts_wait"
    /\ UNCHANGED <<config, run_once, sample_sets, sdr, scanning, stopped, _running,
                   _stopped, t_scanning, stopping, t_stopped, workerVars, ncalls, run_no,
                   delivered, saved, hist>>

\* stop that returns without waiting for the stopped event
StopJoin_nowait ==
    /\ cpc = "ts_wait"
    /\ cpc' = "idle"
    /\ hist' = [hist EXCEPT !.stop_returned = TRUE]
    /\ UNCHANGED <<config, run_once, sample_sets, sdr, evVars, workerVars, ncalls,
                   run_no, delivered, saved>>

\* stop: self.stopped.wait()
StopJoin ==
    /\ cpc = "ts_wait" /\ t_stopped
    /\ cpc' = "idle"
    /\ hist' = [hist EXCEPT !.stop_returned = TRUE]
    /\ UNCHANGED <<config, run_once, sample_sets, sdr, evVars, workerVars, ncalls,
                   run_no, delivered, saved>>

\* ---------------------------------------------------------- configuration
\* the sampling configuration is edited between scheduling and acquisition:
\* sampling_config.sweep_overlap_ratio = ratio / OverlapDen
SetOverlapRatio ==
    /\ pc = "scan_set"
    /\ \E ratio \in OverlapRatios :
        /\ ratio # config.sweep_overlap_ratio
        /\ config' = [config EXCEPT !.sweep_overlap_ratio = ratio]
    /\ UNCHANGED <<run_once, sample_sets, sdr, evVars, workerVars, ctlVars, run_no,
                   delivered, saved, hist>>

\* ---------------------------------------------------------- specifications
Worker ==
    \/ RunScan \/ BuildSampleSet \/ BuildEnd \/ SetRunning \/ ScanSet
    \/ NextWindow \/ LoopExit \/ SamplesCallback \/ ReadReturn
    \/ ScanClear \/ ScanStopped \/ WaitStopped \/ CheckRunning \/ RunClear
    \/ SetStopped \/ ThreadScanClear \/ ThreadStopped

Next ==
    \/ Worker \/ RunBreak \/ WaitReturn
    \/ StopScanCall \/ CancelCheck \/ CancelClear \/ CancelWait \/ StopWait
    \/ StopCall \/ StopSetWaiting \/ StopJoin

\* the lifecycle: one session, a scanning thread and a controlling thread
Spec == Init /\ [][Next]_vars

\* the lifecycle with threads that keep running: the scanning thread and the
\* driver take their next step, the wait between runs times out, and a
\* controller inside ThreadedScanner.stop goes on
SpecLive ==
    /\ Init /\ [][Next]_vars
    /\ WF_vars(Worker) /\ WF_vars(RunBreak) /\ WF_vars(WaitReturn)
    /\ WF_vars(StopSetWaiting) /\ WF_vars(StopJoin)

\* the width (MHz) of a window cropped under overlap ratio ratio/OverlapDen
WindowSpan(ratio) ==
    hz_to_mhz((nperseg - 2 * crop_size(nperseg, ratio)) * (sample_rate \div nperseg))

\* the sessions of the pipeline specification: from two starts, scan ranges
\* of zero length, of 0.2 MHz and of one window width, every overlap ratio
\* of OverlapRatios, four sweeps per window
PipelineConfigs ==
    UNION {{[scan_range |-> <<start, start + len>>, sweep_overlap_ratio |-> ratio,
             sweeps_per_scan |-> 4] :
                start \in {MHzValue(400, 1), MHzValue(40001, 100)},
                len \in {0, MHzValue(2, 10), WindowSpan(ratio)}} :
           ratio \in OverlapRatios}

InitPipeline ==
    /\ config \in PipelineConfigs
    /\ run_once = TRUE
    /\ InitCommon

NextPipeline == Worker \/ BuildRaise \/ SetOverlapRatio

\* scheduling and processing without a controlling thread, over many
\* configurations
SpecPipeline == InitPipeline /\ [][NextPipeline]_vars

InitFailure ==
    /\ config \in ScanConfigs
    /\ run_once = TRUE
    /\ InitCommon

NextFailure == Worker \/ SetOverlapRatio \/ SamplesCallbackRaises

InitRepeat ==
    /\ config \in ScanConfigs
    /\ run_once \in BOOLEAN
    /\ InitCommon

NextRepeat == Worker \/ WaitReturn \/ BuildRaise \/ SetOverlapRatio

\* a session, single-run or repeating, without a controlling thread, whose
\* overlap ratio may be edited, so that a later run schedules other center
\* frequencies and the sample sets of an earlier run stay in the collection
SpecRepeat == InitRepeat /\ [][NextRepeat]_vars

\* one run without a controlling thread in which a callback may raise and
\* the overlap ratio may be edited between scheduling and acquisition
SpecFailure == InitFailure /\ [][NextFailure]_vars


\* -------------------------------------------------------------- properties
Delivered == {k \in DOMAIN delivered : delivered[k] > 0}

\* the scan of run r is over: its loop was left, nothing is being acquired
\* and the scanning flag is clear
ScanOver(r) ==
    \/ run_no > r
    \/ pc \notin ScanPcs /\ sdr.active = {} /\ ~scanning

\* C1 (as stated): when stop_scan is issued while scan_all_freqs is running
\* and N windows are complete when cancel clears the flag, the run delivers
\* exactly those N windows and never calls save_to_dbstore.
C1_ExactlyCompletedDelivered ==
    (hist.snap.valid /\ pc \notin RunPcs)
        => (Delivered = hist.snap.done /\ saved = 0)

\* C1 (amended): when stop_scan is issued while scan_all_freqs is running,
\* the run delivers the N windows complete when cancel clears the flag and
\* the window in flight at that moment, no other window, and never calls
\* save_to_dbstore.
C1_CompletedAndInFlightDelivered ==
    hist.snap.valid =>
        /\ Delivered \subseteq hist.snap.done \cup hist.snap.inflight
        /\ pc \notin RunPcs => Delivered = hist.snap.done \cup hist.snap.inflight
        /\ saved = 0

\* a run cancelled with its first window in flight has ended: that window
\* was delivered, a scheduled window was never started
C1_Witness ==
    /\ hist.snap.valid /\ hist.snap.done = {} /\ hist.snap.inflight # {}
    /\ pc = "run_clear"
    /\ Delivered = hist.snap.inflight
    /\ \E k \in DOMAIN sample_sets : sample_sets[k].raw.none

\* C2: run_scan calls save_to_dbstore only if no stop_scan was requested
\* between the start of the run and the end of its scan, and a run without
\* such a request saves exactly once, every scheduled window delivered.
C2_SaveOnlyWithoutStop ==
    /\ saved > 0 => ~hist.stop_req
    /\ (pc = "run_clear" /\ ~hist.stop_req)
          => (saved = 1 /\ Delivered = DOMAIN sample_sets)

\* C3: once a stop_scan request of this run has gone through cancel, no
\* further window is started, and the window in flight is still delivered.
C3_NoWindowAfterStop ==
    /\ ~hist.started_after
    /\ (hist.snap.valid /\ pc \notin RunPcs) => hist.snap.inflight \subseteq Delivered

\* C4: when cancel (and stop_scan) returns after finding a scan in progress,
\* that scan is over, in the first run and in every later one.
C4_CancelReturnsStopped ==
    (cpc \in {"stop_wait", "idle"} /\ hist.cancel_run > 0) => ScanOver(hist.cancel_run)

\* C5: the _running event and the _stopped event are never both set.
C5_NotRunningAndStopped == ~(_running /\ _stopped)

\* C6: at most one sample set is acquiring, and while one is acquiring every
\* other window whose read_samples was called has been processed.
C6_OneAcquiring ==
    /\ Cardinality(sdr.active) <= 1
    /\ \A k \in sdr.active : \A j \in DOMAIN sample_sets :
          (j # k /\ ~sample_sets[j].raw.none) => (j \notin sdr.active /\ delivered[j] >= 1)

\* the second window is acquiring after the first one was processed
C6_Witness ==
    \E k \in sdr.active : \E j \in DOMAIN sample_sets :
        j < k /\ ~sample_sets[j].raw.none /\ delivered[j] >= 1

\* the scheduler is at work or has just finished: every axis is the cached
\* expected one
Scheduling == pc \in {"build", "set_running", "scan_set"}

\* the pairs of center frequencies scheduled one after the other
ConsecutivePairs ==
    {<<hist.scheduled[i], hist.scheduled[i + 1]>> : i \in 1..(Len(hist.scheduled) - 1)}

\* how far the earlier window's highest bin lies above the later one's lowest
Overlap(p) ==
    SeqMax(sample_sets[p[1]].frequencies.v) - SeqMin(sample_sets[p[2]].frequencies.v)

\* C7 (as stated): consecutive windows leave no gap and overlap by no more
\* than one grid step.
C7_OverlapAtMostOneStep ==
    Scheduling => \A p \in ConsecutivePairs : Overlap(p) >= 0 /\ Overlap(p) <= step_divisor

\* C7 (amended): consecutive windows leave no gap and overlap by more than
\* one grid step and by less than four grid steps.
C7_OverlapOneToFourSteps ==
    Scheduling => \A p \in ConsecutivePairs :
        Overlap(p) > step_divisor /\ Overlap(p) < 4 * step_divisor

\* two windows or more were scheduled
C7_Witness == pc = "set_running" /\ Cardinality(DOMAIN sample_sets) >= 2

ScenarioConfig ==
    [scan_range |-> <<MHzValue(400, 1), MHzValue(4002, 10)>>,
     sweep_overlap_ratio |-> OverlapDen \div 2, sweeps_per_scan |-> 4]

\* C8: for the range [400.0, 400.2] MHz at overlap ratio 0.5 exactly one
\* window is scheduled, centred on 400.0 MHz, the next center being above
\* 400.2 MHz.
C8_ScenarioOneWindow ==
    (config = ScenarioConfig /\ pc \in {"build", "set_running"})
        => /\ DOMAIN sample_sets \subseteq {400 * HzPerMHz}
           /\ built <= 1
           /\ pc = "set_running"
                => (DOMAIN sample_sets = {400 * HzPerMHz} /\ freq > config.scan_range[2])

\* build_sample_sets has returned in the scenario
C8_Witness == config = ScenarioConfig /\ pc = "set_running" /\ built = 1

\* C9: after process_samples the frequency axis and the power array of the
\* sample set have equal length.
C9_AxisAndPowersSameLength ==
    \A k \in DOMAIN sample_sets :
        sample_sets[k].powers.shape = "1d"
            => Len(frequencies(sample_sets[k])) = powers_len(sample_sets[k])

\* a processed window whose axis was replaced: it is no longer as long as
\* the cached expected axis of a window not yet acquired
C9_Witness ==
    \E k, j \in DOMAIN sample_sets :
        /\ sample_sets[k].powers.shape = "1d" /\ delivered[k] >= 1
        /\ sample_sets[j].raw.none /\ ~sample_sets[j].frequencies.none
        /\ Len(sample_sets[k].frequencies.v) # Len(sample_sets[j].frequencies.v)

\* C10: within one scan every window is delivered to the accumulator once.
C10_DeliveredOnce == \A k \in DOMAIN delivered : delivered[k] <= 1

\* C11: when storing the sweep or the preview raises in samples_callback, a
\* cancel is in progress when the exception leaves the callback, the
\* exception that leaves is the one that was caught, and the sweep counter is
\* where it was when the callback was entered.
C11_CancelThenReraise ==
    hist.fail.happened =>
        /\ hist.fail.canceled
        /\ hist.fail.same_exception
        /\ hist.fail.sweep_after = (IF hist.fail.sweep_before = NoSweep THEN 0
                                    ELSE hist.fail.sweep_before)

\* C12: a window whose callback raised is abandoned: it is not delivered to
\* the accumulator, the windows delivered before stay delivered, and
\* save_to_dbstore is not called for that run.
C12_FailedWindowAbandoned ==
    hist.fail.happened =>
        /\ delivered[hist.fail.key] = hist.fail.delivered_before
        /\ hist.fail.done_before \subseteq Delivered
        /\ saved = 0

\* C13: a session whose scan range has zero length schedules no window and
\* never tunes or reads the hardware.
C13_ZeroLengthRangeRejected ==
    config.scan_range[1] = config.scan_range[2]
        => (DOMAIN sample_sets = {} /\ sdr.center_freq = 0 /\ sdr.active = {})

\* C14: while a scheduled window is tuned and acquired on a scan range of
\* non-zero length, the progress fraction of its center frequency lies
\* between 0 and 1.
C14_ProgressInUnitInterval ==
    \A k \in sdr.active :
        LET p == current_freq_progress(hz_to_mhz(k))
        IN ~p.raises => (0 <= p.num /\ p.num <= p.den)

\* C15: ThreadedScanner.stop, once called, returns; when it has returned the
\* thread has left its loop (no run_scan is executing, both scanning flags
\* are clear, stopped is set) and no run_scan is started afterwards; a
\* thread that is in its wait between runs, or at the head of its loop, when
\* stopping is set starts no run_scan.
C15_StopReturnsAndEndsRuns ==
    /\ (cpc = "ts_waiting") ~> hist.stop_returned
    /\ [](hist.stop_returned =>
            (pc = "done" /\ ~t_scanning /\ ~scanning /\ t_stopped))
    /\ [][hist.stop_returned => run_no' = run_no]_vars
    /\ [][(stopping /\ pc \in {"t_wait", "run_top"}) => run_no' = run_no]_vars

\* stop was called during the wait between two runs and has returned, one
\* run made
C15_Witness ==
    /\ hist.stop_returned /\ ~run_once /\ run_no = 1 /\ pc = "done" /\ waiting

\* C16: when the sweep counter of an acquiring window has reached
\* sweeps_per_scan, the read has been cancelled and the window processed.
C16_CompleteAtLastSweep ==
    \A k \in sdr.active :
        sample_sets[k].current_sweep = config.sweeps_per_scan
            => (sdr.canceling /\ sample_sets[k].powers.shape = "1d")

\* C17: the centers build_sample_sets schedules start at f_start, are
\* strictly increasing and at most f_end, and the next candidate is above
\* the center of the window it was computed from.
C17_CentersIncrease ==
    LET sch == hist.scheduled
    IN (pc \in {"build", "set_running"} /\ sch # << >>) =>
        /\ sch[1] = mhz_to_hz(config.scan_range[1])
        /\ \A i \in 1..(Len(sch) - 1) : sch[i] < sch[i + 1]
        /\ \A i \in 1..Len(sch) : hz_to_mhz(sch[i]) <= config.scan_range[2]
        /\ freq > hz_to_mhz(sch[Len(sch)])

\* C18: the expected axis of a scheduled window and the axis and the powers
\* of a processed window hold bin_count - 2*crop bins, crop being
\* floor(bin_count * overlap_ratio / 2).
C18_CropLeavesMiddle ==
    LET left == nperseg - 2 * crop_size(nperseg, config.sweep_overlap_ratio)
    IN \A k \in DOMAIN sample_sets :
        /\ (pc \in {"build", "build_raised", "set_running"}
               /\ ~sample_sets[k].frequencies.none)
             => Len(sample_sets[k].frequencies.v) = left
        /\ sample_sets[k].powers.shape = "1d"
             => /\ Len(sample_sets[k].powers.v) = left
                /\ Len(sample_sets[k].frequencies.v) = left

\* C19: within one scan read_samples is called on the sample sets in
\* strictly ascending order of center frequency, hence on each at most once.
C19_ReadsAscending ==
    \A i \in 1..(Len(hist.read_order) - 1) : hist.read_order[i] < hist.read_order[i + 1]

\* two windows were read in ascending order that were scheduled in
\* descending order
C19_Witness ==
    /\ Len(hist.read_order) >= 2
    /\ hist.scheduled[1] > hist.scheduled[2]
    /\ hist.read_order[1] = hist.scheduled[2]
    /\ hist.read_order[2] = hist.scheduled[1]

\* C20: under the configuration the window was scheduled with, the axis of
\* a processed window is the expected axis of calc_expected_freqs.
C20_ProcessedAxisIsExpected ==
    config.sweep_overlap_ratio = hist.build_ratio =>
        \A k \in DOMAIN sample_sets :
            sample_sets[k].powers.shape = "1d" =>
                sample_sets[k].frequencies.v
                    = calc_expected_freqs(k, hist.build_ratio)

\* a window with a non-empty axis was processed under the configuration it
\* was scheduled with
C20_Witness ==
    /\ config.sweep_overlap_ratio = hist.build_ratio
    /\ \E k \in DOMAIN sample_sets :
          /\ sample_sets[k].powers.shape = "1d" /\ delivered[k] >= 1
          /\ Len(sample_sets[k].frequencies.v) > 0

\* C21: for every delivered window the bins passed to add_sample with
\* is_center_frequency true are the bins of its axis whose frequency is the
\* window's tuned center frequency, and no other.
C21_CenterBinFlagged ==
    \A k \in DOMAIN hist.center_bins :
        hist.center_bins[k]
            = {f \in Range(sample_sets[k].frequencies.v) : f = hz_to_mhz(k)}

\* C22: whenever a sample set holds a power array (from read_samples on),
\* its frequency axis and its power array have equal length.
C22_AxisAndPowersAlwaysSameLength ==
    \A k \in DOMAIN sample_sets :
        sample_sets[k].powers.shape # "none"
            => Len(frequencies(sample_sets[k])) = powers_len(sample_sets[k])

\* the rows of the raw buffer written since read_samples allocated it
RowsWritten(ss) == Cardinality({i \in 1..Len(ss.raw.rows) : ss.raw.rows[i] = 1})

\* C23: for every sample set with a raw buffer, current_sweep lies within
\* 0..sweeps_per_scan and equals the number of rows written since
\* read_samples allocated the buffer, and a window processed without any
\* callback having raised has all its rows written.
C23_SweepCounterIsRowsWritten ==
    \A k \in DOMAIN sample_sets :
        LET ss == sample_sets[k]
            current_sweep == IF ss.current_sweep = NoSweep THEN 0 ELSE ss.current_sweep
        IN ~ss.raw.none =>
            /\ current_sweep \in 0..config.sweeps_per_scan
            /\ current_sweep = RowsWritten(ss)
            /\ (ss.powers.shape = "1d" /\ ~hist.fail.happened)
                  => RowsWritten(ss) = config.sweeps_per_scan

\* C24: once an exception raised in a window's acquisition has unwound
\* scan_all_freqs and run_scan, the scanning and _running flags are clear
\* and both stopped signals are set.
C24_StoppedAfterException ==
    pc = "raised" => (~scanning /\ ~_running /\ stopped /\ _stopped)

====
